---------------------------- MODULE Spec2Model ----------------------------
(***************************************************************************)
(* Model of the Telegram Mini App initData validator of changer-mvp        *)
(* (src/worker/src/index.js).                                              *)
(*                                                                         *)
(* Strings are sequences of UTF-16 code units (naturals); the domain of    *)
(* the model is ASCII.  HMAC-SHA256 (crypto.subtle, a platform primitive)  *)
(* is idealised as a collision-free keyed function: see hmac below.        *)
(***************************************************************************)
EXTENDS Integers, Sequences, FiniteSets, TLC

(***************************************************************************)
(* String literals used by the code.                                       *)
(***************************************************************************)
\* "hash"
K_hash == <<104, 97, 115, 104>>
\* "auth_date"
K_auth_date == <<97, 117, 116, 104, 95, 100, 97, 116, 101>>
\* "user"
K_user == <<117, 115, 101, 114>>
\* "WebAppData"
WebAppData == <<87, 101, 98, 65, 112, 112, 68, 97, 116, 97>>
\* "id"
K_id == <<105, 100>>

\* const VALID_AUTH_WINDOW = 300;
VALID_AUTH_WINDOW == 300

(***************************************************************************)
(* Generic string helpers.                                                 *)
(***************************************************************************)
\* Index of the first occurrence of code unit c in s, 0 when absent.
IndexOf(s, c) ==
  IF \E i \in 1..Len(s) : s[i] = c
  THEN CHOOSE i \in 1..Len(s) : s[i] = c /\ \A j \in 1..(i - 1) : s[j] # c
  ELSE 0

\* String.prototype.split on a single code unit.
RECURSIVE SplitOn(_, _)
SplitOn(s, c) ==
  LET i == IndexOf(s, c)
  IN IF i = 0 THEN <<s>>
     ELSE <<SubSeq(s, 1, i - 1)>> \o SplitOn(SubSeq(s, i + 1, Len(s)), c)

\* a < b on strings: lexicographic by code unit, a proper prefix is smaller.
StrLess(a, b) ==
  \E i \in 1..Len(b) :
    /\ \A j \in 1..(i - 1) : j <= Len(a) /\ a[j] = b[j]
    /\ (i > Len(a) \/ (i <= Len(a) /\ a[i] < b[i]))

IsDigit(c) == c >= 48 /\ c <= 57
IsHexDigit(c) == IsDigit(c) \/ (c >= 97 /\ c <= 102) \/ (c >= 65 /\ c <= 70)
HexVal(c) == IF IsDigit(c) THEN c - 48 ELSE IF c >= 97 THEN c - 87 ELSE c - 55

RECURSIVE BitXor(_, _)
BitXor(x, y) ==
  IF x = 0 /\ y = 0 THEN 0
  ELSE (((x % 2) + (y % 2)) % 2) + 2 * BitXor(x \div 2, y \div 2)

RECURSIVE BitOr(_, _)
BitOr(x, y) ==
  IF x = 0 /\ y = 0 THEN 0
  ELSE (IF x % 2 = 1 \/ y % 2 = 1 THEN 1 ELSE 0) + 2 * BitOr(x \div 2, y \div 2)

(***************************************************************************)
(* URLSearchParams: the parsing primitive behind parseInitData.            *)
(***************************************************************************)
\* application/x-www-form-urlencoded decoding of one name or value:
\* '+' is a space, %XX is the byte XX, a malformed % stays as it is.
RECURSIVE PercentDecode(_)
PercentDecode(s) ==
  LET esc == {i \in 1..Len(s) : s[i] = 43 \/ s[i] = 37}
      i == CHOOSE k \in esc : \A j \in esc : k <= j
      rest == SubSeq(s, i, Len(s))
  IN IF esc = {} THEN s
     ELSE SubSeq(s, 1, i - 1) \o
          (IF rest[1] = 43 THEN <<32>> \o PercentDecode(Tail(rest))
           ELSE IF Len(rest) >= 3 /\ IsHexDigit(rest[2]) /\ IsHexDigit(rest[3])
                THEN <<16 * HexVal(rest[2]) + HexVal(rest[3])>>
                       \o PercentDecode(SubSeq(rest, 4, Len(rest)))
           ELSE <<37>> \o PercentDecode(Tail(rest)))

RECURSIVE ParsePairs(_)
ParsePairs(segs) ==
  IF segs = <<>> THEN <<>>
  ELSE LET seg == Head(segs)
           i == IndexOf(seg, 61)
           name == IF i = 0 THEN seg ELSE SubSeq(seg, 1, i - 1)
           value == IF i = 0 THEN <<>> ELSE SubSeq(seg, i + 1, Len(seg))
       IN IF seg = <<>> THEN ParsePairs(Tail(segs))
          ELSE <<<<PercentDecode(name), PercentDecode(value)>>>>
                 \o ParsePairs(Tail(segs))

\* new URLSearchParams(initData): the list of decoded [name, value] pairs.
parseInitData(initData) ==
  LET s == IF initData # <<>> /\ initData[1] = 63 THEN Tail(initData) ELSE initData
  IN ParsePairs(SplitOn(s, 38))

Has(params, k) == \E i \in 1..Len(params) : params[i][1] = k

\* params.get(k): the first value of name k; Has tells null apart.
Get(params, k) ==
  IF Has(params, k)
  THEN params[CHOOSE i \in 1..Len(params) :
                /\ params[i][1] = k
                /\ \A j \in 1..(i - 1) : params[j][1] # k][2]
  ELSE <<>>

(***************************************************************************)
(* buildDataCheckString                                                    *)
(***************************************************************************)
\* The comparator of entries.sort: keys only.
CompareKeys(a, b) ==
  IF StrLess(a[1], b[1]) THEN -1 ELSE IF StrLess(b[1], a[1]) THEN 1 ELSE 0

\* One step of a stable sort: e goes after every entry that does not
\* compare greater than it.
InsertEntry(sorted, e) ==
  LET n == Cardinality({i \in 1..Len(sorted) : CompareKeys(sorted[i], e) <= 0})
  IN SubSeq(sorted, 1, n) \o <<e>> \o SubSeq(sorted, n + 1, Len(sorted))

\* A sort that leaves the entries in the order received.
SortEntries_unsorted(entries) == entries

\* Array.prototype.sort with CompareKeys (stable since ES2019).
RECURSIVE SortEntries(_)
SortEntries(entries) ==
  IF entries = <<>> THEN <<>>
  ELSE InsertEntry(SortEntries(SubSeq(entries, 1, Len(entries) - 1)),
                   entries[Len(entries)])

\* for (const [k, v] of params.entries()) { if (k === "hash") continue; ... }
RECURSIVE WithoutHash(_)
WithoutHash(params) ==
  IF params = <<>> THEN <<>>
  ELSE IF Head(params)[1] = K_hash THEN WithoutHash(Tail(params))
  ELSE <<Head(params)>> \o WithoutHash(Tail(params))

\* entries.map(([k, v]) => `${k}=${v}`).join("\n")
RECURSIVE JoinLines(_)
JoinLines(entries) ==
  IF entries = <<>> THEN <<>>
  ELSE LET line == Head(entries)[1] \o <<61>> \o Head(entries)[2]
       IN IF Len(entries) = 1 THEN line
          ELSE line \o <<10>> \o JoinLines(Tail(entries))

\* The canonical string without the sort.
buildDataCheckString_unsorted(params) == JoinLines(WithoutHash(params))

buildDataCheckString(params) == JoinLines(SortEntries(WithoutHash(params)))

(***************************************************************************)
(* Keyed hash, hex encoding, comparison.                                   *)
(***************************************************************************)
\* new TextEncoder().encode(s), code units below 0x800.
RECURSIVE encodeUtf8(_)
encodeUtf8(s) ==
  LET wide == {i \in 1..Len(s) : s[i] >= 128}
      i == CHOOSE k \in wide : \A j \in wide : k <= j
  IN IF wide = {} THEN s
     ELSE SubSeq(s, 1, i - 1)
          \o <<192 + (s[i] \div 64), 128 + (s[i] % 64)>>
          \o encodeUtf8(SubSeq(s, i + 1, Len(s)))

\* crypto.subtle.sign("HMAC", key, data).  HMAC-SHA256 is idealised as a
\* collision-free function of (key, data): the digest is an injective
\* encoding of the pair (the key and the data never hold a 0 byte here).
\* Its length is therefore not the 32 bytes of SHA-256.
hmac(keyBytes, dataBytes) == keyBytes \o <<0>> \o dataBytes

HexDigit(d) == IF d < 10 THEN 48 + d ELSE 87 + d

\* bytes.map(b => b.toString(16).padStart(2, "0")).join("")
toHex(bytes) ==
  [i \in 1..(2 * Len(bytes)) |->
     LET b == bytes[(i + 1) \div 2]
     IN IF i % 2 = 1 THEN HexDigit(b \div 16) ELSE HexDigit(b % 16)]

telegramWebAppSecretKey(botToken) == hmac(encodeUtf8(botToken), encodeUtf8(WebAppData))

hmacHex(keyBytes, data) == toHex(hmac(keyBytes, encodeUtf8(data)))

\* The value the loop of timingSafeEqual accumulates over the indices
\* lo..hi: res |= a.charCodeAt(i) ^ b.charCodeAt(i).  The range is split in
\* halves (| is associative) to keep the evaluation shallow.
RECURSIVE XorFold(_, _, _, _)
XorFold(a, b, lo, hi) ==
  IF lo > hi THEN 0
  ELSE IF lo = hi THEN BitXor(a[lo], b[lo])
  ELSE LET mid == (lo + hi) \div 2
       IN BitOr(XorFold(a, b, lo, mid), XorFold(a, b, mid + 1, hi))

timingSafeEqual(a, b) ==
  IF Len(a) # Len(b) THEN FALSE ELSE XorFold(a, b, 1, Len(a)) = 0

(***************************************************************************)
(* Number(...) and JSON.parse(...) on the strings of the model.            *)
(***************************************************************************)
NaN == [nan |-> TRUE, v |-> 0]
Num(n) == [nan |-> FALSE, v |-> n]

RECURSIVE DecValue(_)
DecValue(s) ==
  IF s = <<>> THEN 0
  ELSE 10 * DecValue(SubSeq(s, 1, Len(s) - 1)) + (s[Len(s)] - 48)

\* Number(s) for strings without white space, sign, '.', exponent, radix
\* prefix or "Infinity": the empty string is 0, a digit string its decimal
\* value, anything else NaN.
Number(s) ==
  IF \A i \in 1..Len(s) : IsDigit(s[i]) THEN Num(DecValue(s)) ELSE NaN

\* JSON integer: no leading zero.
IsJsonInt(t) ==
  /\ t # <<>>
  /\ \A i \in 1..Len(t) : IsDigit(t[i])
  /\ (Len(t) = 1 \/ t[1] # 48)

JsonError == [err |-> TRUE, truthy |-> FALSE, id |-> <<>>]
JsonValue(truthy, id) == [err |-> FALSE, truthy |-> truthy, id |-> id]

\* JSON.parse(s) for texts without white space that are null, an integer,
\* {} or an object of one member with an integer value; every other text
\* of the model is a SyntaxError.  id is the member "id" (<<>>: undefined).
JSON_parse(s) ==
  IF s = <<110, 117, 108, 108>> THEN JsonValue(FALSE, <<>>)
  ELSE IF IsJsonInt(s) THEN JsonValue(DecValue(s) # 0, <<>>)
  ELSE IF s = <<123, 125>> THEN JsonValue(TRUE, <<>>)
  ELSE IF Len(s) >= 6 /\ s[1] = 123 /\ s[2] = 34 /\ s[Len(s)] = 125
    THEN LET rest == SubSeq(s, 3, Len(s) - 1)
             q == IndexOf(rest, 34)
             key == SubSeq(rest, 1, q - 1)
             val == SubSeq(rest, q + 2, Len(rest))
         IN IF /\ q > 0
               /\ q < Len(rest)
               /\ rest[q + 1] = 58
               /\ \A i \in 1..Len(key) : key[i] >= 32 /\ key[i] # 92
               /\ IsJsonInt(val)
            THEN JsonValue(TRUE, IF key = K_id THEN val ELSE <<>>)
            ELSE JsonError
  ELSE JsonError

(***************************************************************************)
(* handleValidate                                                          *)
(***************************************************************************)
\* A check that lets the empty string through.
BotTokenMissing_unsetOnly(token) == ~token.set

\* !env.BOT_TOKEN: the secret is unset or the empty string.
BotTokenMissing(token) == ~token.set \/ token.chars = <<>>

\* !initData || typeof initData !== "string"
InitDataMissing(initData) == initData.type # "string" \/ initData.chars = <<>>

\* !hash: params.get gave null or the empty string.
HashMissing(hash) == hash = <<>>

\* An off-by-one window: >= in place of >.
Expired_inclusive(clock, authDate) ==
  ~authDate.nan /\ clock - authDate.v >= VALID_AUTH_WINDOW

\* now - authDate > VALID_AUTH_WINDOW; every comparison with NaN is false.
Expired(clock, authDate) ==
  ~authDate.nan /\ clock - authDate.v > VALID_AUTH_WINDOW

\* json({ ok: false, error }, status), with the stages the call went through.
Reject(error, status, stages) ==
  [resp |-> [ok |-> FALSE, error |-> error, status |-> status],
   stages |-> stages, clock |-> 0]

\* A catch block that leaves an empty object in place of null.
Claims_keepsObject(userRaw, present) ==
  IF present /\ userRaw # <<>> THEN [null |-> FALSE, id |-> <<>>]
  ELSE [null |-> TRUE, id |-> <<>>]

\* user ? { id: user.id, ... } : null.  Of the allowlisted members only id
\* can be defined for the JSON texts of the model.
Claims(userRaw, present) ==
  LET parsedUser == IF present /\ userRaw # <<>> THEN JSON_parse(userRaw)
                    ELSE JsonValue(FALSE, <<>>)
  IN IF ~parsedUser.err /\ parsedUser.truthy
     THEN [null |-> FALSE, id |-> parsedUser.id]
     ELSE [null |-> TRUE, id |-> <<>>]

\* The whole of handleValidate for the secret, the request body and the
\* clock value read at line 69.
handleValidate(token, body, clock) ==
  IF BotTokenMissing(token)
  THEN Reject("SERVER_CONFIG_ERROR", 500, <<"ConfigChecked">>)
  ELSE IF body.kind # "json"
  THEN Reject("INVALID_JSON", 400, <<"ConfigChecked", "BodyRead">>)
  ELSE IF InitDataMissing(body.initData)
  THEN Reject("INIT_DATA_REQUIRED", 400, <<"ConfigChecked", "BodyRead">>)
  ELSE
    LET parsed == parseInitData(body.initData.chars)
        hash == Get(parsed, K_hash)
        authRaw == Get(parsed, K_auth_date)
        authDate == Number(IF authRaw = <<>> THEN <<48>> ELSE authRaw)
        upToHash == <<"ConfigChecked", "BodyRead", "Parsed", "HashExtracted">>
    IN IF HashMissing(hash)
       THEN Reject("HASH_MISSING", 400, upToHash)
       ELSE IF Expired(clock, authDate)
       THEN [Reject("DATA_EXPIRED", 401, upToHash \o <<"FreshnessChecked">>)
               EXCEPT !.clock = clock]
       ELSE
         LET dataCheckString == buildDataCheckString(parsed)
             secretKey == telegramWebAppSecretKey(token.chars)
             expectedHash == hmacHex(secretKey, dataCheckString)
             upToCompare == upToHash \o <<"FreshnessChecked", "Canonicalized",
                                          "ExpectedComputed", "Compared">>
         IN IF ~timingSafeEqual(hash, expectedHash)
            THEN [Reject("INVALID_SIGNATURE", 401, upToCompare)
                    EXCEPT !.clock = clock]
            ELSE [resp |-> [ok |-> TRUE,
                            user |-> Claims(Get(parsed, K_user), Has(parsed, K_user)),
                            auth_date |-> authDate,
                            status |-> 200],
                  stages |-> upToCompare \o <<"ClaimsExtracted">>,
                  clock |-> clock]

(***************************************************************************)
(* The environment: the platform that signs initData with the bot token,   *)
(* the client that posts it, and a sender free to post anything.           *)
(***************************************************************************)
\* The bot token the platform signs with, and another one.
RealToken == <<116>>
OtherToken == <<120>>

\* Bounds of the model.
MaxTicks == 3
MaxStrLen == 3
MaxFields == 3

\* encodeURIComponent: everything but A-Z a-z 0-9 - _ . ! ~ * ' ( ) is %XX.
IsUnreserved(c) ==
  \/ IsDigit(c) \/ (c >= 65 /\ c <= 90) \/ (c >= 97 /\ c <= 122)
  \/ c \in {45, 95, 46, 33, 126, 42, 39, 40, 41}

UpperHexDigit(d) == IF d < 10 THEN 48 + d ELSE 55 + d

RECURSIVE PercentEncode(_)
PercentEncode(s) ==
  LET res == {i \in 1..Len(s) : ~IsUnreserved(s[i])}
      i == CHOOSE k \in res : \A j \in res : k <= j
  IN IF res = {} THEN s
     ELSE SubSeq(s, 1, i - 1)
          \o <<37, UpperHexDigit(s[i] \div 16), UpperHexDigit(s[i] % 16)>>
          \o PercentEncode(SubSeq(s, i + 1, Len(s)))

\* The query string of a list of pairs.
RECURSIVE Serialize(_)
Serialize(pairs) ==
  IF pairs = <<>> THEN <<>>
  ELSE LET one == PercentEncode(Head(pairs)[1]) \o <<61>> \o PercentEncode(Head(pairs)[2])
       IN IF Len(pairs) = 1 THEN one
          ELSE one \o <<38>> \o Serialize(Tail(pairs))

Reverse(seq) == [i \in 1..Len(seq) |-> seq[Len(seq) + 1 - i]]

\* The signature of the trusted signer over fields that it holds sorted by
\* key: hex(HMAC(HMAC("WebAppData" keyed by the token), lines of key=value)).
TrustedHash(sortedFields, secret) ==
  toHex(hmac(hmac(encodeUtf8(secret), encodeUtf8(WebAppData)),
             encodeUtf8(JoinLines(sortedFields))))

\* "100", "99", "500", "abc"
AuthDateValues == {<<49, 48, 48>>, <<57, 57>>, <<53, 48, 48>>, <<97, 98, 99>>}
\* {"id":1}  and the truncated  {"id":1
UserValues == {<<123, 34, 105, 100, 34, 58, 49, 125>>,
               <<123, 34, 105, 100, 34, 58, 49>>}

\* The field lists the signer issues, each sorted by key.
SignerFieldLists ==
  LET auth == {<<>>} \cup {<<<<K_auth_date, v>>>> : v \in AuthDateValues}
      user == {<<>>} \cup {<<<<K_user, v>>>> : v \in UserValues}
  IN {a \o u : a \in auth, u \in user}

\* Code units a sender may put in place of one character of a value.
TamperAlphabet == {48, 57, 97, 123}

StringBody(chars) == [kind |-> "json", initData |-> [type |-> "string", chars |-> chars]]

\* What a sender without the token can post.
ForgedBodies ==
  LET stale == <<<<K_auth_date, <<49>>>>>>
      fresh == <<<<K_auth_date, <<53, 48, 48>>>>>>
      good(f) == TrustedHash(f, RealToken)
      hashes(f) == {<<>>,
                    TrustedHash(f, OtherToken),
                    good(<<<<K_auth_date, <<57, 57>>>>>>),
                    SubSeq(good(f), 1, Len(good(f)) - 1),
                    [good(f) EXCEPT ![Len(good(f))] = 120]}
  IN {[kind |-> "invalid_json", initData |-> [type |-> "undefined", chars |-> <<>>]],
      [kind |-> "json", initData |-> [type |-> "undefined", chars |-> <<>>]],
      [kind |-> "json", initData |-> [type |-> "number", chars |-> <<>>]],
      StringBody(<<>>),
      StringBody(Serialize(fresh)),
      StringBody(Serialize(fresh \o <<<<K_hash, TrustedHash(fresh, OtherToken)>>,
                                       <<K_hash, good(fresh)>>>>)),
      StringBody(Serialize(fresh \o <<<<K_hash, good(fresh)>>,
                                       <<K_hash, TrustedHash(fresh, OtherToken)>>>>))}
     \cup {StringBody(Serialize(f \o <<<<K_hash, h>>>>)) :
             f \in {stale, fresh}, h \in hashes(stale) \cup hashes(fresh)}

(***************************************************************************)
(* State.                                                                  *)
(***************************************************************************)
VARIABLES
  BOT_TOKEN,   \* env.BOT_TOKEN: [set, chars]
  now,         \* Math.floor(Date.now() / 1000)
  request,     \* the body of the request posted to /api/validate
  origin,      \* how the request came about: [kind, fields]
  response,    \* what handleValidate returned: [resp, stages, clock]
  pc,          \* "idle", "pending" (posted), "responded"
  tse,         \* one call of timingSafeEqual, statement by statement
  canon        \* buildDataCheckString applied to a payload and a permutation

mainVars == <<BOT_TOKEN, now, request, origin, response, pc>>
vars == <<BOT_TOKEN, now, request, origin, response, pc, tse, canon>>

Epoch == VALID_AUTH_WINDOW + 99

NoRequest == [kind |-> "none", initData |-> [type |-> "undefined", chars |-> <<>>]]
NoResponse == Reject("", 0, <<>>)
NoOrigin == [kind |-> "none", fields |-> <<>>]
TseIdle == [a |-> <<>>, b |-> <<>>, i |-> 0, res |-> 0, cmps |-> 0,
            ret |-> FALSE, pc |-> "idle"]
CanonIdle == [params |-> <<>>, permuted |-> <<>>, out |-> <<>>,
              outPermuted |-> <<>>, pc |-> "idle"]

MainIdle ==
  /\ now = Epoch
  /\ request = NoRequest
  /\ origin = NoOrigin
  /\ response = NoResponse
  /\ pc = "idle"

Init ==
  /\ BOT_TOKEN \in {[set |-> FALSE, chars |-> <<>>],
                    [set |-> TRUE, chars |-> <<>>],
                    [set |-> TRUE, chars |-> RealToken]}
  /\ MainIdle
  /\ tse = TseIdle
  /\ canon = CanonIdle

\* A second passes.
Tick ==
  /\ now < Epoch + MaxTicks
  /\ now' = now + 1
  /\ UNCHANGED <<BOT_TOKEN, request, origin, response, pc, tse, canon>>

\* The client posts initData that the platform signed, fields in the
\* signer's order or reversed, the hash last or first.
SignerIssue ==
  /\ pc = "idle"
  /\ \E f \in SignerFieldLists, rev \in BOOLEAN :
       LET pairs == f \o <<<<K_hash, TrustedHash(f, RealToken)>>>>
       IN /\ request' = StringBody(Serialize(IF rev THEN Reverse(pairs) ELSE pairs))
          /\ origin' = [kind |-> "signed", fields |-> f]
  /\ pc' = "pending"
  /\ UNCHANGED <<BOT_TOKEN, now, response, tse, canon>>

\* One character of one value other than hash is changed after signing.
Tamper ==
  /\ pc = "pending"
  /\ origin.kind = "signed"
  /\ LET pairs == parseInitData(request.initData.chars)
     IN \E i \in 1..Len(pairs) :
          /\ pairs[i][1] # K_hash
          /\ \E pos \in 1..Len(pairs[i][2]), c \in TamperAlphabet :
               /\ c # pairs[i][2][pos]
               /\ request' = StringBody(Serialize(
                    [pairs EXCEPT ![i] = <<pairs[i][1], [pairs[i][2] EXCEPT ![pos] = c]>>]))
  /\ origin' = [origin EXCEPT !.kind = "tampered"]
  /\ UNCHANGED <<BOT_TOKEN, now, response, pc, tse, canon>>

\* A sender without the token posts a body of its own making.
Forge ==
  /\ pc = "idle"
  /\ request' \in ForgedBodies
  /\ origin' = [kind |-> "forged", fields |-> <<>>]
  /\ pc' = "pending"
  /\ UNCHANGED <<BOT_TOKEN, now, response, tse, canon>>

\* fetch routes the POST to handleValidate, which answers.
HandleValidate ==
  /\ pc = "pending"
  /\ response' = handleValidate(BOT_TOKEN, request, now)
  /\ pc' = "responded"
  /\ UNCHANGED <<BOT_TOKEN, now, request, origin, tse, canon>>

\* fetch returns the response; the worker keeps nothing of the request.
ReturnResponse ==
  /\ pc = "responded"
  /\ request' = NoRequest
  /\ origin' = NoOrigin
  /\ response' = NoResponse
  /\ pc' = "idle"
  /\ UNCHANGED <<BOT_TOKEN, now, tse, canon>>

Next == Tick \/ SignerIssue \/ Tamper \/ Forge \/ HandleValidate \/ ReturnResponse

Spec == Init /\ [][Next]_vars

(***************************************************************************)
(* timingSafeEqual, statement by statement.                                *)
(***************************************************************************)
\* Code units of the strings compared: '0', '1', 'a'.
TseAlphabet == {48, 49, 97}

RECURSIVE StringsUpTo(_, _)
StringsUpTo(alphabet, n) ==
  IF n = 0 THEN {<<>>}
  ELSE LET shorter == StringsUpTo(alphabet, n - 1)
       IN shorter \cup {Append(s, c) : s \in shorter, c \in alphabet}

TseInit ==
  /\ BOT_TOKEN = [set |-> TRUE, chars |-> RealToken]
  /\ MainIdle
  /\ canon = CanonIdle
  /\ \E a \in StringsUpTo(TseAlphabet, MaxStrLen), b \in StringsUpTo(TseAlphabet, MaxStrLen) :
       tse = [TseIdle EXCEPT !.a = a, !.b = b, !.pc = "length"]

\* if (a.length !== b.length) return false;  let res = 0;  i = 0
TseLengthCheck ==
  /\ tse.pc = "length"
  /\ tse' = IF Len(tse.a) # Len(tse.b)
            THEN [tse EXCEPT !.ret = FALSE, !.pc = "done"]
            ELSE [tse EXCEPT !.res = 0, !.i = 0, !.pc = "loop"]
  /\ UNCHANGED <<mainVars, canon>>

\* A loop that stops at the first difference.
TseLoopContinues_earlyExit(a, i, res) == i < Len(a) /\ res = 0

\* The loop condition: i < a.length.
TseLoopContinues(a, i, res) == i < Len(a)

\* res |= a.charCodeAt(i) ^ b.charCodeAt(i);  i++   (i counts from 0)
TseLoopBody ==
  /\ tse.pc = "loop"
  /\ TseLoopContinues(tse.a, tse.i, tse.res)
  /\ tse' = [tse EXCEPT !.res = BitOr(tse.res, BitXor(tse.a[tse.i + 1], tse.b[tse.i + 1])),
                        !.i = tse.i + 1,
                        !.cmps = tse.cmps + 1]
  /\ UNCHANGED <<mainVars, canon>>

\* return res === 0;
TseReturn ==
  /\ tse.pc = "loop"
  /\ ~TseLoopContinues(tse.a, tse.i, tse.res)
  /\ tse' = [tse EXCEPT !.ret = (tse.res = 0), !.pc = "done"]
  /\ UNCHANGED <<mainVars, canon>>

TseNext == TseLengthCheck \/ TseLoopBody \/ TseReturn

SpecTSE == TseInit /\ [][TseNext]_vars

(***************************************************************************)
(* buildDataCheckString on a payload and on a permutation of it.           *)
(***************************************************************************)
\* Keys "a", "b", "hash" and values "1", "2".
CanonPairs == {<<k, v>> : k \in {<<97>>, <<98>>, K_hash}, v \in {<<49>>, <<50>>}}

RECURSIVE ListsUpTo(_, _)
ListsUpTo(elems, n) ==
  IF n = 0 THEN {<<>>}
  ELSE LET shorter == ListsUpTo(elems, n - 1)
       IN shorter \cup {Append(s, e) : s \in shorter, e \in elems}

CanonInit ==
  /\ BOT_TOKEN = [set |-> TRUE, chars |-> RealToken]
  /\ MainIdle
  /\ tse = TseIdle
  /\ \E params \in ListsUpTo(CanonPairs, MaxFields) :
       canon = [CanonIdle EXCEPT !.params = params, !.permuted = params, !.pc = "input"]

\* Two neighbouring fields of the payload change places.
CanonSwap ==
  /\ canon.pc = "input"
  /\ \E i \in 1..(Len(canon.permuted) - 1) :
       canon' = [canon EXCEPT !.permuted =
                   [canon.permuted EXCEPT ![i] = canon.permuted[i + 1],
                                          ![i + 1] = canon.permuted[i]]]
  /\ UNCHANGED <<mainVars, tse>>

\* buildDataCheckString is applied to both.
CanonBuild ==
  /\ canon.pc = "input"
  /\ canon' = [canon EXCEPT !.out = buildDataCheckString(canon.params),
                            !.outPermuted = buildDataCheckString(canon.permuted),
                            !.pc = "done"]
  /\ UNCHANGED <<mainVars, tse>>

CanonNext == CanonSwap \/ CanonBuild

SpecCanon == CanonInit /\ [][CanonNext]_vars

(***************************************************************************)
(* Properties.                                                             *)
(***************************************************************************)
Responded == pc = "responded"
Resp == response.resp
ErrorOf(r) == IF r.ok THEN "" ELSE r.error
StageReached(stage) == \E i \in 1..Len(response.stages) : response.stages[i] = stage

TokenConfigured == BOT_TOKEN.set /\ BOT_TOKEN.chars # <<>>
TokenIsSigners == BOT_TOKEN.set /\ BOT_TOKEN.chars = RealToken

\* The request carries a non-empty initData string.
IsPayload ==
  request.kind = "json" /\ request.initData.type = "string" /\ request.initData.chars # <<>>
Payload == parseInitData(request.initData.chars)
PayloadHash == Get(Payload, K_hash)
\* HMAC_SHA256(DerivedKey, CanonicalString) of the request, in hex.
ExpectedSignature ==
  hmacHex(telegramWebAppSecretKey(BOT_TOKEN.chars), buildDataCheckString(Payload))

\* The auth_date the signer put under the signature (absent counts as "0").
SignedAuthDate ==
  Number(IF Has(origin.fields, K_auth_date) /\ Get(origin.fields, K_auth_date) # <<>>
         THEN Get(origin.fields, K_auth_date) ELSE <<48>>)
\* Seconds between the signed auth_date and the clock the handler read.
SignedAge == response.clock - SignedAuthDate.v

\* C1: an accepted result implies that the hash field equals the expected
\* signature computed by the verifier and that now - auth_date <= 300.
C1_AcceptedIsSignedAndFresh ==
  Responded /\ Resp.ok =>
    /\ IsPayload
    /\ PayloadHash = ExpectedSignature
    /\ LET raw == Get(Payload, K_auth_date)
           authDate == Number(IF raw = <<>> THEN <<48>> ELSE raw)
       IN ~authDate.nan /\ response.clock - authDate.v <= VALID_AUTH_WINDOW

\* C2: the signature is compared before freshness is checked: a payload with
\* a hash whose signature does not match gets INVALID_SIGNATURE whatever its
\* auth_date, and DATA_EXPIRED is returned only for a valid signature.
C2_SignatureBeforeFreshness ==
  Responded /\ TokenConfigured /\ IsPayload /\ PayloadHash # <<>> =>
    /\ (PayloadHash # ExpectedSignature => ErrorOf(Resp) = "INVALID_SIGNATURE")
    /\ (ErrorOf(Resp) = "DATA_EXPIRED" => PayloadHash = ExpectedSignature)

\* C3 as stated: every payload signed by the trusted signer with the
\* configured secret is accepted (here: every one that carries a numeric
\* auth_date).
C3_SignedIsAccepted ==
  /\ Responded /\ origin.kind = "signed" /\ TokenIsSigners
  /\ Has(origin.fields, K_auth_date) /\ ~SignedAuthDate.nan
  => Resp.ok

\* C3 as amended: a payload signed by the trusted signer with the configured
\* secret is accepted unless now - Number(auth_date) > 300, and is then
\* rejected with DATA_EXPIRED.
C3_SignedIsAcceptedUnlessExpired ==
  Responded /\ origin.kind = "signed" /\ TokenIsSigners =>
    IF ~SignedAuthDate.nan /\ SignedAge > VALID_AUTH_WINDOW
    THEN ErrorOf(Resp) = "DATA_EXPIRED"
    ELSE Resp.ok

\* A signed payload of two fields, sent in reverse order, was accepted.
C3_Witness ==
  /\ Responded /\ origin.kind = "signed" /\ TokenIsSigners /\ Resp.ok
  /\ Len(origin.fields) = 2
  /\ Payload[1][1] = K_hash

\* C4: a signed payload in which one character of a value other than hash
\* was changed is rejected with INVALID_SIGNATURE and nothing else.
\* (Here: of a payload whose signed auth_date is within the window.)
C4_TamperedIsInvalidSignature ==
  /\ Responded /\ origin.kind = "tampered" /\ TokenIsSigners
  /\ Has(origin.fields, K_auth_date) /\ ~SignedAuthDate.nan
  /\ SignedAge <= VALID_AUTH_WINDOW
  => ErrorOf(Resp) = "INVALID_SIGNATURE"

\* C6: a signed payload is rejected as expired exactly when
\* now - auth_date > 300: accepted at now - 300, DATA_EXPIRED at now - 301.
C6_FreshnessBoundary ==
  Responded /\ origin.kind = "signed" /\ TokenIsSigners =>
    /\ (ErrorOf(Resp) = "DATA_EXPIRED"
          <=> (~SignedAuthDate.nan /\ SignedAge > VALID_AUTH_WINDOW))
    /\ (~SignedAuthDate.nan /\ SignedAge = VALID_AUTH_WINDOW => Resp.ok)
    /\ (~SignedAuthDate.nan /\ SignedAge = VALID_AUTH_WINDOW + 1
          => ErrorOf(Resp) = "DATA_EXPIRED")

\* A signed payload whose auth_date is exactly now - 300 was accepted.
C6_Witness ==
  /\ Responded /\ origin.kind = "signed" /\ TokenIsSigners /\ Resp.ok
  /\ ~SignedAuthDate.nan /\ SignedAge = VALID_AUTH_WINDOW

\* C7: with BOT_TOKEN empty or unset every call ends with
\* SERVER_CONFIG_ERROR and never reaches the signature computation or the
\* comparison.
C7_NoSecretNoComparison ==
  Responded /\ ~TokenConfigured =>
    /\ ErrorOf(Resp) = "SERVER_CONFIG_ERROR"
    /\ ~StageReached("ExpectedComputed")
    /\ ~StageReached("Compared")

\* A correctly signed payload was answered while BOT_TOKEN was the empty string.
C7_Witness ==
  /\ Responded /\ BOT_TOKEN.set /\ BOT_TOKEN.chars = <<>>
  /\ origin.kind = "signed" /\ Has(origin.fields, K_auth_date)

\* The truncated user text  {"id":1  , which is not JSON.
MalformedUser == <<123, 34, 105, 100, 34, 58, 49>>

\* C8: a signed and fresh payload whose user field is not parseable JSON, or
\* is absent, is accepted with user: null.
C8_MalformedUserIsNull ==
  /\ Responded /\ origin.kind = "signed" /\ TokenIsSigners
  /\ (SignedAuthDate.nan \/ SignedAge <= VALID_AUTH_WINDOW)
  /\ (~Has(origin.fields, K_user) \/ Get(origin.fields, K_user) = MalformedUser)
  => Resp.ok /\ Resp.user.null /\ Resp.status = 200

\* A signed, fresh payload with the malformed user text was accepted.
C8_Witness ==
  /\ Responded /\ origin.kind = "signed" /\ Resp.ok
  /\ Has(origin.fields, K_user) /\ Get(origin.fields, K_user) = MalformedUser
  /\ Resp.user.null

\* C9: every accepted result carries an integer auth_date, the value of the
\* payload's auth_date field.
C9_AcceptedAuthDateIsInteger ==
  Responded /\ Resp.ok =>
    LET raw == Get(Payload, K_auth_date)
    IN /\ ~Resp.auth_date.nan
       /\ raw # <<>>
       /\ \A i \in 1..Len(raw) : IsDigit(raw[i])
       /\ Resp.auth_date.v = DecValue(raw)

\* C10: timingSafeEqual returns true exactly for identical strings; on
\* equal lengths n it makes n comparisons wherever the first difference is,
\* on different lengths it returns false without comparing.
C10_FullScan ==
  tse.pc = "done" =>
    /\ (tse.ret <=> tse.a = tse.b)
    /\ (Len(tse.a) = Len(tse.b) => tse.cmps = Len(tse.a))
    /\ (Len(tse.a) # Len(tse.b) => ~tse.ret /\ tse.cmps = 0)
    /\ tse.ret = timingSafeEqual(tse.a, tse.b)

\* Two strings of equal length that differ in their first character were
\* compared to the end.
C10_Witness ==
  /\ tse.pc = "done" /\ Len(tse.a) = Len(tse.b) /\ Len(tse.a) >= 2
  /\ tse.a[1] # tse.b[1] /\ tse.cmps = Len(tse.a) /\ ~tse.ret

\* No key other than hash occurs twice with different values.
NoConflictingKeys(params) ==
  \A i, j \in 1..Len(params) :
    params[i][1] = params[j][1] /\ params[i][1] # K_hash => params[i][2] = params[j][2]

\* out is the pairs of params other than hash, sorted ascending by key,
\* each rendered key=value, joined by single newlines with none trailing.
IsCanonicalString(out, params) ==
  LET entries == SelectSeq(params, LAMBDA e : e[1] # K_hash)
      lines == IF out = <<>> THEN <<>> ELSE SplitOn(out, 10)
      keyOf(line) == SubSeq(line, 1, IndexOf(line, 61) - 1)
  IN /\ Len(lines) = Len(entries)
     /\ \A i \in 1..Len(lines) : IndexOf(lines[i], 61) > 0
     /\ \A i, j \in 1..Len(lines) : i < j => ~StrLess(keyOf(lines[j]), keyOf(lines[i]))
     /\ \A i \in 1..Len(entries) :
          Cardinality({j \in 1..Len(lines) : lines[j] = entries[i][1] \o <<61>> \o entries[i][2]})
            = Cardinality({j \in 1..Len(entries) : entries[j] = entries[i]})
     /\ (out # <<>> => out[Len(out)] # 10)

\* C5 as stated: every permutation of the fields gives the same string,
\* also when a key occurs more than once with different values.
C5_PermutationInvariant ==
  canon.pc = "done" => canon.out = canon.outPermuted

\* C5 as amended: every permutation of the fields gives the same string
\* provided no key other than hash occurs twice with different values; the
\* string is always the canonical rendering of the pairs other than hash.
C5_PermutationInvariantDistinctKeys ==
  canon.pc = "done" =>
    /\ (NoConflictingKeys(canon.params) => canon.out = canon.outPermuted)
    /\ IsCanonicalString(canon.out, canon.params)
    /\ IsCanonicalString(canon.outPermuted, canon.permuted)

\* A payload of fields b, hash, a was canonicalized together with a
\* permutation that is not the payload itself.
C5_Witness ==
  /\ canon.pc = "done" /\ NoConflictingKeys(canon.params)
  /\ Len(canon.params) = 3 /\ canon.permuted # canon.params
  /\ canon.params[1][1] = <<98>> /\ canon.params[2][1] = K_hash
  /\ canon.params[3][1] = <<97>>
  /\ canon.out = canon.outPermuted

=============================================================================
